---- MODULE Spec2Model ----
(***************************************************************************)
(* The data-ingestion core of the metadata dashboard: the Newick parser    *)
(* (parseNewick), the descriptor classifier (analyzeDescriptors) and       *)
(* loadDashboard, which runs both over the files the user loads; then the  *)
(* colouring of the tree (drawTree) and the filter of the search box.      *)
(*                                                                         *)
(* A JavaScript string is a sequence of one-character strings, so that     *)
(* indexing, trimming and number parsing are computed character by         *)
(* character as the code does.                                             *)
(***************************************************************************)
EXTENDS Integers, Sequences, FiniteSets, TLC

VARIABLES
  newick,    \* parseNewick: the argument of the call in progress
  parser,    \* parseNewick: the cursor pos, the open groups, the control point
  csvFile,   \* the parsed rows of the CSV file chosen in the file input
  treeFile,  \* the text of the tree file chosen in the file input
  state,     \* the global state object
  alertMsg,  \* the alert raised by the last loadDashboard (NoAlert: none)
  loaded,    \* whether <main> carries the class 'loaded'
  hung,      \* the page is inside a call that never returns
  treeColour,   \* the value of the select treeColour
  eventsBound,  \* whether bindEvents has run
  treeSvg,   \* the coloured hierarchy drawn in #treeSvg (Null: nothing)
  searchBox, \* the text of the search box
  uncaught,  \* the exception the last listener let escape (NoError: none)
  download,  \* the text of the last file exported (Null: none)
  requests   \* the clicks of Load whose file reads are not all complete

parseVars == <<newick, parser>>
viewVars == <<treeColour, eventsBound, treeSvg>>
pageVars == <<searchBox, uncaught, download, requests>>
dashVars == <<csvFile, treeFile, state, alertMsg, loaded, hung, viewVars, pageVars>>
vars == <<newick, parser, csvFile, treeFile, state, alertMsg, loaded, hung,
          treeColour, eventsBound, treeSvg, searchBox, uncaught, download, requests>>

----------------------------------------------------------------------------
(* Characters and strings *)

\* What indexing a string past its end gives.
Undefined == "undefined"

\* newick[pos], counted from 0.
CharAt(s, p) == IF p >= 0 /\ p < Len(s) THEN s[p + 1] ELSE Undefined

IsSpace(c) == c = " "

RECURSIVE TrimStart(_)
TrimStart(s) ==
  IF s # <<>> /\ IsSpace(Head(s)) THEN TrimStart(Tail(s)) ELSE s

RECURSIVE TrimEnd(_)
TrimEnd(s) ==
  IF s # <<>> /\ IsSpace(s[Len(s)]) THEN TrimEnd(SubSeq(s, 1, Len(s) - 1)) ELSE s

\* String.prototype.trim
Trim(s) == TrimEnd(TrimStart(s))

Digits == {"0", "1", "2", "3", "4", "5", "6", "7", "8", "9"}

DigitValue(c) ==
  CASE c = "0" -> 0 [] c = "1" -> 1 [] c = "2" -> 2 [] c = "3" -> 3 [] c = "4" -> 4
    [] c = "5" -> 5 [] c = "6" -> 6 [] c = "7" -> 7 [] c = "8" -> 8 [] c = "9" -> 9

\* The longest prefix of s made of digits, as <<value, number of digits>>.
RECURSIVE DigitPrefix(_, _, _)
DigitPrefix(s, acc, n) ==
  IF s # <<>> /\ Head(s) \in Digits
    THEN DigitPrefix(Tail(s), acc * 10 + DigitValue(Head(s)), n + 1)
    ELSE <<acc, n>>

\* parseFloat on a string of spaces, signs, digits and other characters:
\* leading white space is skipped, then an optional sign and the longest run
\* of digits are read; with no digit there the result is NaN.  (The strings of
\* this model hold no '.', no exponent and no "Infinity".)
ParseFloat(s) ==
  LET t == TrimStart(s)
      signed == t # <<>> /\ Head(t) \in {"-", "+"}
      body == IF signed THEN Tail(t) ELSE t
      dp == DigitPrefix(body, 0, 0)
  IN  IF dp[2] = 0 THEN [nan |-> TRUE, v |-> 0]
      ELSE [nan |-> FALSE, v |-> IF signed /\ Head(t) = "-" THEN 0 - dp[1] ELSE dp[1]]

\* parseFloat(lengthStr) || 0
ParseFloatOrZero(s) == LET f == ParseFloat(s) IN IF f.nan THEN 0 ELSE f.v

\* The characters of the model in the order of their UTF-16 code units.
CodeOrder ==
  <<" ", "(", ")", ",", "-", "0", "1", "2", "3", "4", "5", "6", "7", "8", "9",
    ":", ";", "A", "B", "C", "D", "N", "X", "_", "a", "b", "c", "d", "n", "x">>

\* The rank of a character's code unit among those of the model.
CodeRank(c) == CHOOSE i \in 1..Len(CodeOrder) : CodeOrder[i] = c

\* toUpperCase on one character.
UpperChar(c) ==
  CASE c = "a" -> "A" [] c = "b" -> "B" [] c = "c" -> "C" [] c = "d" -> "D"
    [] c = "n" -> "N" [] c = "x" -> "X" [] OTHER -> c

\* String.prototype.toUpperCase
ToUpperCase(s) == [i \in 1..Len(s) |-> UpperChar(s[i])]

\* a < b for strings: the comparison of their code units, a proper prefix first.
RECURSIVE StringLess(_, _)
StringLess(a, b) ==
  IF b = <<>> THEN FALSE
  ELSE IF a = <<>> THEN TRUE
  ELSE IF Head(a) = Head(b) THEN StringLess(Tail(a), Tail(b))
  ELSE CodeRank(Head(a)) < CodeRank(Head(b))

\* The decimal digits of a natural number.
RECURSIVE NatToString(_)
NatToString(n) ==
  IF n < 10 THEN <<CodeOrder[CodeRank("0") + n]>>
  ELSE Append(NatToString(n \div 10), CodeOrder[CodeRank("0") + (n % 10)])

\* String(n) for an integer n.
IntToString(n) == IF n < 0 THEN <<"-">> \o NatToString(0 - n) ELSE NatToString(n)

\* Number(s), the unary plus on a string: white space is trimmed, the empty
\* string is 0, an optionally signed run of digits is its value and anything
\* else is NaN.
ToNumber(s) ==
  LET t == Trim(s)
      signed == t # <<>> /\ Head(t) \in {"-", "+"}
      body == IF signed THEN Tail(t) ELSE t
      dp == DigitPrefix(body, 0, 0)
  IN  IF t = <<>> THEN [nan |-> FALSE, v |-> 0]
      ELSE IF dp[2] = 0 \/ dp[2] # Len(body) THEN [nan |-> TRUE, v |-> 0]
      ELSE [nan |-> FALSE, v |-> IF Head(t) = "-" THEN 0 - dp[1] ELSE dp[1]]

----------------------------------------------------------------------------
(* JavaScript values held in descriptors: a number, NaN or a string *)

Num(n) == [t |-> "num", n |-> n, s |-> <<>>]
Str(s) == [t |-> "str", n |-> 0, s |-> s]
NaN == [t |-> "nan", n |-> 0, s |-> <<>>]
Undef == [t |-> "undefined", n |-> 0, s |-> <<>>]

\* String(v)
StringOf(v) ==
  CASE v.t = "num" -> IntToString(v.n)
    [] v.t = "str" -> v.s
    [] v.t = "nan" -> <<"N", "a", "N">>
    [] OTHER -> <<"u", "n", "d", "e", "f", "i", "n", "e", "d">>

\* +v
NumberOf(v) ==
  CASE v.t = "num" -> v
    [] v.t = "str" -> (LET r == ToNumber(v.s) IN IF r.nan THEN NaN ELSE Num(r.v))
    [] OTHER -> NaN

----------------------------------------------------------------------------
(* parseNewick *)

\* The loop of parseNameAndLength from position p on.
RECURSIVE ScanNameAndLength(_, _, _, _, _)
ScanNameAndLength(s, p, name, lengthStr, readingName) ==
  IF p < Len(s) /\ CharAt(s, p) \notin {",", ")", ";"}
    THEN IF CharAt(s, p) = ":"
           THEN ScanNameAndLength(s, p + 1, name, lengthStr, FALSE)
           ELSE IF readingName
                  THEN ScanNameAndLength(s, p + 1, Append(name, CharAt(s, p)), lengthStr, TRUE)
                  ELSE ScanNameAndLength(s, p + 1, name, Append(lengthStr, CharAt(s, p)), FALSE)
    ELSE [name |-> name, lengthStr |-> lengthStr, pos |-> p]

\* parseNameAndLength: the record it returns, with the cursor it leaves.  The
\* field name is absent when the trimmed name is empty (undefined).
ParseNameAndLength(s, p) ==
  LET r == ScanNameAndLength(s, p, <<>>, <<>>, TRUE)
      nm == Trim(r.name)
      len == ParseFloatOrZero(r.lengthStr)
  IN  IF nm = <<>> THEN [length |-> len, pos |-> r.pos]
      ELSE [name |-> nm, length |-> len, pos |-> r.pos]

HasName(r) == "name" \in DOMAIN r

Internal == <<"i", "n", "t", "e", "r", "n", "a", "l">>

\* The node parseSubtree returns for a leaf.
LeafNode(nl) ==
  [name |-> IF HasName(nl) THEN nl.name ELSE Internal, length |-> nl.length]

\* The node parseSubtree returns for a group: name and length are set only
\* when truthy.
GroupNode(children, nl) ==
  LET base == [branchset |-> children]
      named == IF HasName(nl) THEN [name |-> nl.name] ELSE <<>>
      sized == IF nl.length # 0 THEN [length |-> nl.length] ELSE <<>>
  IN  base @@ named @@ sized

\* newick.trim() with one trailing ';' sliced off.
TrimmedNewick(s) ==
  LET t == Trim(s)
  IN  IF t # <<>> /\ t[Len(t)] = ";" THEN SubSeq(t, 1, Len(t) - 1) ELSE t

\* The text the cursor reads.  parseSubtree declares no parameter and indexes
\* the enclosing function's newick: the argument it is called with is dropped.
CursorText(s, argument) == s

NoNode == [none |-> TRUE]

ParserStart == [pos |-> 0, stack |-> <<>>, ret |-> NoNode, pc |-> "subtree"]

\* The children array of a group holds at most this many nodes in any call
\* that returns; an array that grows past it is kept to this length.
MaxChildren(s) == Len(s) + 1

\* A push at the wrong end of the array.
PushFront(s, children, node) ==
  IF Len(children) < MaxChildren(s) THEN <<node>> \o children ELSE children

Push(s, children, node) ==
  IF Len(children) < MaxChildren(s) THEN Append(children, node) ELSE children

\* One step of parseSubtree over text s from parser state st.
\*   subtree: entry of parseSubtree
\*   loop:    the test of while (newick[pos] !== ')')
\*   return:  parseSubtree returns st.ret to its caller
ParseStep(s, st) ==
  CASE st.pc = "subtree" ->
         IF CharAt(s, st.pos) = "("
           THEN [st EXCEPT !.pos = @ + 1, !.stack = Append(@, <<>>), !.pc = "loop"]
           ELSE LET nl == ParseNameAndLength(s, st.pos)
                IN  [st EXCEPT !.pos = nl.pos, !.ret = LeafNode(nl), !.pc = "return"]
    [] st.pc = "loop" ->
         IF CharAt(s, st.pos) # ")"
           THEN [st EXCEPT !.pc = "subtree"]
           ELSE LET nl == ParseNameAndLength(s, st.pos + 1)
                    children == st.stack[Len(st.stack)]
                IN  [st EXCEPT !.pos = nl.pos,
                               !.stack = SubSeq(@, 1, Len(@) - 1),
                               !.ret = GroupNode(children, nl),
                               !.pc = "return"]
    [] st.pc = "return" ->
         IF st.stack = <<>>
           THEN [st EXCEPT !.pc = "done"]
           ELSE LET top == Len(st.stack)
                    pushed == [st.stack EXCEPT ![top] = Push(s, @, st.ret)]
                IN  [st EXCEPT !.stack = pushed,
                               !.pos = IF CharAt(s, st.pos) = "," THEN @ + 1 ELSE @,
                               !.pc = "loop"]
    [] OTHER -> st

\* The steps of a call that returns are fewer than this (the call makes at
\* most Len(s) + 1 nodes, and at most four steps for each).
StepBudget(s) == 4 * (Len(s) + 1) + 1

RECURSIVE RunParser(_, _, _)
RunParser(s, st, budget) ==
  IF st.pc = "done" \/ budget = 0 THEN st
  ELSE RunParser(s, ParseStep(s, st), budget - 1)

\* parseNewick(s) as a function: the final parser state of the call, whose
\* pc is "done" with the tree in ret when the call returns; a call that is
\* still running when the budget is spent never returns.
ParseNewick(s) ==
  LET text == CursorText(s, TrimmedNewick(s))
  IN  RunParser(text, ParserStart, StepBudget(text))

Returns(r) == r.pc = "done"

----------------------------------------------------------------------------
(* analyzeDescriptors *)

\* s.descriptors[key]
Descriptor(seq, key) ==
  IF key \in DOMAIN seq.descriptors THEN seq.descriptors[key] ELSE Undef

\* The filter of analyzeDescriptors: the value is neither null nor undefined,
\* its string is not blank and is not "NA" in any letter case.
IsPresent(v) ==
  /\ v.t # "undefined"
  /\ Trim(StringOf(v)) # <<>>
  /\ ToUpperCase(StringOf(v)) # <<"N", "A">>

\* The column with no value filtered out.
ColumnValuesUnfiltered(allSequences, key) ==
  [i \in 1..Len(allSequences) |-> Descriptor(allSequences[i], key)]

ColumnValues(allSequences, key) ==
  SelectSeq([i \in 1..Len(allSequences) |-> Descriptor(allSequences[i], key)], IsPresent)

\* !isNaN(parseFloat(v)) && isFinite(v)
IsNumericValue(v) ==
  /\ ~ParseFloat(StringOf(v)).nan
  /\ NumberOf(v).t = "num"

NumericCount(values) == Cardinality({i \in 1..Len(values) : IsNumericValue(values[i])})

\* unique: [...new Set(arr)], each value once, in the order of first occurrence.
RECURSIVE Unique(_)
Unique(arr) ==
  IF arr = <<>> THEN <<>>
  ELSE LET init == Unique(SubSeq(arr, 1, Len(arr) - 1))
           last == arr[Len(arr)]
       IN  IF \E i \in 1..Len(init) : init[i] = last THEN init ELSE Append(init, last)

\* The thresholds of the classification: a fraction of 0.8, in tenths, and 6
\* distinct values.
NumericFractionTenths == 8
DistinctThreshold == 6

\* The thresholds taken as inclusive.
IsNumericalInclusive(values) ==
  /\ NumericCount(values) * 10 >= NumericFractionTenths * Len(values)
  /\ Len(Unique(values)) >= DistinctThreshold

\* (numericCount / values.length > 0.8) && uniqueValues.length > 6.  The
\* quotient of two small integers exceeds the double 0.8 exactly when it
\* exceeds 8/10.
IsNumerical(values) ==
  /\ NumericCount(values) * 10 > NumericFractionTenths * Len(values)
  /\ Len(Unique(values)) > DistinctThreshold

\* d3.extent: values are taken in order; a value that does not compare with
\* itself (NaN, undefined) is skipped.
RECURSIVE ExtentFrom(_, _, _)
ExtentFrom(values, i, acc) ==
  IF i > Len(values) THEN acc
  ELSE LET value == values[i]
           next == IF value.t # "num" THEN acc
                   ELSE IF acc[1].t # "num" THEN <<value, value>>
                   ELSE <<IF acc[1].n > value.n THEN value ELSE acc[1],
                          IF acc[2].n < value.n THEN value ELSE acc[2]>>
       IN  ExtentFrom(values, i + 1, next)

D3Extent(values) == ExtentFrom(values, 1, <<Undef, Undef>>)

\* Array.prototype.sort with no comparator: a stable sort by the strings of
\* the elements.
RECURSIVE InsertByString(_, _)
InsertByString(sorted, v) ==
  IF sorted = <<>> THEN <<v>>
  ELSE LET last == sorted[Len(sorted)]
       IN  IF StringLess(StringOf(v), StringOf(last))
             THEN Append(InsertByString(SubSeq(sorted, 1, Len(sorted) - 1), v), last)
             ELSE Append(sorted, v)

\* The array left in the order of first occurrence.
Unsorted(arr) == arr

RECURSIVE DefaultSort(_)
DefaultSort(arr) ==
  IF arr = <<>> THEN <<>>
  ELSE InsertByString(DefaultSort(SubSeq(arr, 1, Len(arr) - 1)), arr[Len(arr)])

\* The domain analyzeDescriptors stores for a column of the given type.
DomainOf(type, values) ==
  IF type = "numerical"
    THEN D3Extent([i \in 1..Len(values) |-> NumberOf(values[i])])
    ELSE DefaultSort(Unique(values))

\* The entry analyzeDescriptors stores for column key.
DescriptorInfoOf(allSequences, key) ==
  LET values == ColumnValues(allSequences, key)
      type == IF IsNumerical(values) THEN "numerical" ELSE "categorical"
  IN  IF values = <<>> THEN [type |-> "categorical", domain |-> <<>>]
      ELSE [type |-> type, domain |-> DomainOf(type, values)]

Range(f) == {f[i] : i \in DOMAIN f}

\* analyzeDescriptors: one entry is written for each key of state.descriptors;
\* the other entries of state.descriptorInfo stay.
AnalyzeDescriptors(st) ==
  LET written == [k \in Range(st.descriptors) |-> DescriptorInfoOf(st.allSequences, k)]
  IN  [st EXCEPT !.descriptorInfo = written @@ @]

----------------------------------------------------------------------------
(* loadDashboard *)

Null == [null |-> TRUE]

\* The state object as the script creates it.
InitialState ==
  [allSequences |-> <<>>, sequences |-> <<>>, papers |-> <<>>, tree |-> Null,
   descriptors |-> <<>>, descriptorInfo |-> <<>>]

IdColumns == {"pmid", "accession"}

\* const num = +v; isNaN(num) || v === '' ? v : num
Coerce(v) ==
  LET num == ToNumber(v)
  IN  IF num.nan \/ v = <<>> THEN Str(v) ELSE Num(num.v)

\* The record loadDashboard makes of one parsed row d; accession and pmid are
\* absent (undefined) when the row has no such column.
SequenceOf(d) ==
  LET keys == DOMAIN d \ IdColumns
      ids == [k \in DOMAIN d \cap IdColumns |-> d[k]]
  IN  ids @@ [descriptors |-> [k \in keys |-> Coerce(d[k])]]

\* A sequence's pmid as a value.
PmidOf(d) == IF "pmid" \in DOMAIN d THEN Str(d["pmid"]) ELSE Undef

\* Whether drawTree throws: the label of a leaf of the hierarchy (a node
\* with no branchset or an empty one) is d.data.name.replace(...), a
\* TypeError when the node has no name.
RECURSIVE HasNamelessLeaf(_)
HasNamelessLeaf(node) ==
  IF "branchset" \in DOMAIN node /\ node.branchset # <<>>
    THEN \E i \in 1..Len(node.branchset) : HasNamelessLeaf(node.branchset[i])
    ELSE "name" \notin DOMAIN node

NoAlert == "none"

\* What a listener lets escape: nothing, the TypeError of
\* s.accession.toUpperCase() on a record with no accession, or that of
\* d.data.name.replace(...) on a leaf with no name.
NoError == "none"
AccessionError == "TypeError: s.accession is undefined"
LabelError == "TypeError: d.data.name is undefined"

\* loadDashboard with the test of the tree text before that of the rows.
LoadDashboardTreeFirst(newickString, raw, st) ==
  LET filled == [st EXCEPT
                   !.descriptors = SelectSeq(raw.columns, LAMBDA k : k \notin IdColumns),
                   !.allSequences = [i \in 1..Len(raw.rows) |-> SequenceOf(raw.rows[i])],
                   !.sequences = [i \in 1..Len(raw.rows) |-> SequenceOf(raw.rows[i])],
                   !.papers = Unique([i \in 1..Len(raw.rows) |-> PmidOf(raw.rows[i])])]
      parsed == ParseNewick(newickString)
      analyzed == AnalyzeDescriptors([filled EXCEPT !.tree = parsed.ret])
  IN  IF newickString = <<>>
        THEN [state |-> st, alert |-> "Tree data is empty", loaded |-> FALSE, returns |-> TRUE,
              drawn |-> FALSE]
      ELSE IF raw.rows = <<>>
        THEN [state |-> st, alert |-> "CSV data is empty", loaded |-> FALSE, returns |-> TRUE,
              drawn |-> FALSE]
      ELSE IF ~Returns(parsed)
        THEN [state |-> filled, alert |-> NoAlert, loaded |-> FALSE, returns |-> FALSE,
              drawn |-> FALSE]
      ELSE IF HasNamelessLeaf(parsed.ret)
        THEN [state |-> analyzed, alert |-> "TypeError", loaded |-> FALSE, returns |-> TRUE,
              drawn |-> TRUE]
      ELSE [state |-> analyzed, alert |-> NoAlert, loaded |-> TRUE, returns |-> TRUE,
            drawn |-> TRUE]

\* The outcome of loadDashboard(newickString, raw) from state st: the state
\* it leaves, the message it alerts, whether <main> ends 'loaded', whether
\* the call returns at all, and whether it got past the parser, to
\* populateControls, bindEvents and drawTree.
LoadDashboard(newickString, raw, st) ==
  LET filled == [st EXCEPT
                   !.descriptors = SelectSeq(raw.columns, LAMBDA k : k \notin IdColumns),
                   !.allSequences = [i \in 1..Len(raw.rows) |-> SequenceOf(raw.rows[i])],
                   !.sequences = [i \in 1..Len(raw.rows) |-> SequenceOf(raw.rows[i])],
                   !.papers = Unique([i \in 1..Len(raw.rows) |-> PmidOf(raw.rows[i])])]
      parsed == ParseNewick(newickString)
      analyzed == AnalyzeDescriptors([filled EXCEPT !.tree = parsed.ret])
  IN  IF raw.rows = <<>>
        THEN [state |-> st, alert |-> "CSV data is empty", loaded |-> FALSE, returns |-> TRUE,
              drawn |-> FALSE]
      ELSE IF newickString = <<>>
        THEN [state |-> st, alert |-> "Tree data is empty", loaded |-> FALSE, returns |-> TRUE,
              drawn |-> FALSE]
      ELSE IF ~Returns(parsed)
        THEN [state |-> filled, alert |-> NoAlert, loaded |-> FALSE, returns |-> FALSE,
              drawn |-> FALSE]
      ELSE IF HasNamelessLeaf(parsed.ret)
        THEN [state |-> analyzed, alert |-> "TypeError", loaded |-> FALSE, returns |-> TRUE,
              drawn |-> TRUE]
      ELSE [state |-> analyzed, alert |-> NoAlert, loaded |-> TRUE, returns |-> TRUE,
            drawn |-> TRUE]

----------------------------------------------------------------------------
(* drawTree *)

\* The value of the first option of the treeColour select.
NoneOption == "--none--"

NeutralColour == "#ccc"

\* d3.schemeTableau10
SchemeTableau10 ==
  <<"#4e79a7", "#f28e2c", "#e15759", "#76b7b2", "#59a14f",
    "#edc949", "#af7aa1", "#ff9da7", "#9c755f", "#bab0ab">>

IsNull(x) == "null" \in DOMAIN x

\* leaf.data.name and s.accession as values, undefined when absent.
NameOf(data) == IF "name" \in DOMAIN data THEN Str(data.name) ELSE Undef
AccessionOf(s) == IF "accession" \in DOMAIN s THEN Str(s.accession) ELSE Undef

RECURSIVE SumValues(_, _)
SumValues(nodes, i) ==
  IF i > Len(nodes) THEN 0 ELSE nodes[i].value + SumValues(nodes, i + 1)

\* d3.hierarchy(state.tree, d => d.branchset).sum(d => d.branchset ? 0 : 1).
\* A node of the hierarchy holds its datum (here without the branchset), its
\* value and its children; a node with no branchset or an empty one has no
\* children (here an empty sequence) and is a leaf of the hierarchy.
RECURSIVE Hierarchy(_)
Hierarchy(data) ==
  LET grouped == "branchset" \in DOMAIN data
      kids == IF grouped
                THEN [i \in 1..Len(data.branchset) |-> Hierarchy(data.branchset[i])]
                ELSE <<>>
  IN  [data |-> [k \in DOMAIN data \ {"branchset"} |-> data[k]],
       value |-> (IF grouped THEN 0 ELSE 1) + SumValues(kids, 1),
       children |-> kids]

\* The comparator (a.value - b.value) || d3.ascending(a.data.length,
\* b.data.length) is negative; d3.ascending of an absent length is NaN, which
\* the sort takes as 0.
ComesBefore(a, b) ==
  \/ a.value < b.value
  \/ /\ a.value = b.value
     /\ "length" \in DOMAIN a.data
     /\ "length" \in DOMAIN b.data
     /\ a.data.length < b.data.length

RECURSIVE InsertNode(_, _)
InsertNode(sorted, v) ==
  IF sorted = <<>> THEN <<v>>
  ELSE LET last == sorted[Len(sorted)]
       IN  IF ComesBefore(v, last)
             THEN Append(InsertNode(SubSeq(sorted, 1, Len(sorted) - 1), v), last)
             ELSE Append(sorted, v)

\* Array.prototype.sort with the comparator: a stable sort.
RECURSIVE SortNodes(_)
SortNodes(nodes) ==
  IF nodes = <<>> THEN <<>>
  ELSE InsertNode(SortNodes(SubSeq(nodes, 1, Len(nodes) - 1)), nodes[Len(nodes)])

\* node.sort(compare): the children of every node are sorted.
RECURSIVE SortHierarchy(_)
SortHierarchy(node) ==
  [node EXCEPT !.children =
     SortNodes([i \in 1..Len(node.children) |-> SortHierarchy(node.children[i])])]

\* A node is named by its path from the root, the indexes of the children
\* taken on the way.
RECURSIVE NodeAt(_, _)
NodeAt(node, path) ==
  IF path = <<>> THEN node ELSE NodeAt(node.children[Head(path)], Tail(path))

RECURSIVE PathsFrom(_, _, _)
RECURSIVE LeafPaths(_)
PathsFrom(node, i, acc) ==
  IF i > Len(node.children) THEN acc
  ELSE LET below == LeafPaths(node.children[i])
       IN  PathsFrom(node, i + 1, acc \o [j \in 1..Len(below) |-> <<i>> \o below[j]])

\* root.leaves(): the nodes without children, in pre-order.
LeafPaths(node) ==
  IF node.children = <<>> THEN <<<<>>>> ELSE PathsFrom(node, 1, <<>>)

\* A call colorScale(v) of d3.scaleOrdinal(d3.schemeTableau10), the scale's
\* domain being domain: a value the domain does not hold is appended to it,
\* and the colour is that of the value's index, modulo the length of the
\* scheme.  The call gives the colour and the domain it leaves.
ScaleOrdinal(domain, v) ==
  LET known == {i \in 1..Len(domain) : domain[i] = v}
      grown == IF known = {} THEN Append(domain, v) ELSE domain
      i == IF known = {} THEN Len(grown) ELSE CHOOSE k \in known : TRUE
  IN  [color |-> SchemeTableau10[((i - 1) % Len(SchemeTableau10)) + 1], domain |-> grown]

\* The first record, whatever its accession.
FindFirst(sequences, name) ==
  IF sequences = <<>> THEN Null ELSE sequences[1]

\* state.sequences.find(s => s.accession === name)
Find(sequences, name) ==
  LET hits == {i \in 1..Len(sequences) : AccessionOf(sequences[i]) = name}
  IN  IF hits = {} THEN Null
      ELSE sequences[CHOOSE i \in hits : \A j \in hits : i <= j]

\* The scale applied whatever the type of the descriptor.
LeafColorOfAnyType(st, colorDesc, domain, data) ==
  LET seq == Find(st.sequences, NameOf(data))
  IN  IF IsNull(seq) \/ colorDesc \notin DOMAIN st.descriptorInfo
        THEN [color |-> NeutralColour, domain |-> domain]
        ELSE ScaleOrdinal(domain, Descriptor(seq, colorDesc))

\* The colour of one leaf, whose datum is data, and the domain of the scale
\* after it: (seq && colorInfo) ? colorScale(seq.descriptors[colorDesc]) : "#ccc",
\* where colorScale is () => "#ccc" unless the descriptor is categorical.
LeafColor(st, colorDesc, domain, data) ==
  LET seq == Find(st.sequences, NameOf(data))
  IN  IF IsNull(seq) \/ colorDesc \notin DOMAIN st.descriptorInfo
        THEN [color |-> NeutralColour, domain |-> domain]
      ELSE IF st.descriptorInfo[colorDesc].type # "categorical"
        THEN [color |-> NeutralColour, domain |-> domain]
      ELSE ScaleOrdinal(domain, Descriptor(seq, colorDesc))

\* root.leaves().forEach(...): the colours of the leaves, in their order.
RECURSIVE LeafColors(_, _, _, _, _, _)
LeafColors(st, colorDesc, root, paths, domain, acc) ==
  IF Len(acc) = Len(paths) THEN acc
  ELSE LET leaf == NodeAt(root, paths[Len(acc) + 1])
           c == LeafColor(st, colorDesc, domain, leaf.data)
       IN  LeafColors(st, colorDesc, root, paths, c.domain, Append(acc, c.color))

\* The colour of the first child, whatever the others have.
FirstChildColor(colors) == colors[1]

\* The colour of the last child when the first and the last agree.
SharedByEnds(colors) ==
  IF colors[Len(colors)] = colors[1] THEN colors[1] ELSE NeutralColour

\* node.children.every(c => c.color === firstChildColor) ? firstChildColor : "#ccc"
SharedColor(colors) ==
  IF \A i \in 1..Len(colors) : colors[i] = colors[1] THEN colors[1] ELSE NeutralColour

\* root.eachAfter(...): the hierarchy with the colour of every node, the
\* children before their parent.
RECURSIVE EachAfter(_, _, _, _)
EachAfter(node, path, paths, colors) ==
  IF node.children = <<>>
    THEN [data |-> node.data, value |-> node.value, children |-> <<>>,
          color |-> colors[CHOOSE i \in 1..Len(paths) : paths[i] = path]]
    ELSE LET kids == [i \in 1..Len(node.children) |->
                        EachAfter(node.children[i], Append(path, i), paths, colors)]
         IN  [data |-> node.data, value |-> node.value, children |-> kids,
              color |-> SharedColor([i \in 1..Len(kids) |-> kids[i].color])]

\* The hierarchy drawTree builds and colours from state st when the select
\* treeColour has the value colorDesc; Null when there is no tree.
DrawTree(st, colorDesc) ==
  IF IsNull(st.tree) THEN Null
  ELSE LET root == SortHierarchy(Hierarchy(st.tree))
           paths == LeafPaths(root)
           domain == IF colorDesc \in DOMAIN st.descriptorInfo
                       THEN Unique(st.descriptorInfo[colorDesc].domain) ELSE <<>>
       IN  EachAfter(root, <<>>, paths, LeafColors(st, colorDesc, root, paths, domain, <<>>))

\* Whether drawTree throws when it draws the tree of state st.
DrawThrows(st) == ~IsNull(st.tree) /\ HasNamelessLeaf(st.tree)

----------------------------------------------------------------------------
(* The search box *)

\* value.split(",")
RECURSIVE Split(_)
Split(s) ==
  LET commas == {i \in 1..Len(s) : s[i] = ","}
  IN  IF commas = {} THEN <<s>>
      ELSE LET first == CHOOSE i \in commas : \A j \in commas : i <= j
           IN  <<SubSeq(s, 1, first - 1)>> \o Split(SubSeq(s, first + 1, Len(s)))

\* .map(t => t.trim().toUpperCase()).filter(Boolean)
Tokens(value) ==
  LET parts == Split(value)
  IN  SelectSeq([i \in 1..Len(parts) |-> ToUpperCase(Trim(parts[i]))], LAMBDA t : t # <<>>)

\* String.prototype.includes
Includes(text, token) ==
  \E i \in 0..(Len(text) - Len(token)) : SubSeq(text, i + 1, i + Len(token)) = token

\* The test of the filter on the record s.
MatchesSome(s, tokens) ==
  \E j \in 1..Len(tokens) :
    \/ Includes(ToUpperCase(s.accession), tokens[j])
    \/ /\ "pmid" \in DOMAIN s
       /\ s.pmid # <<>>
       /\ Includes(ToUpperCase(s.pmid), tokens[j])

\* The handler classifying the filtered records anew.
SearchInputClassifying(value, st) ==
  LET tokens == Tokens(value)
      kept == IF tokens = <<>> THEN st.allSequences
              ELSE SelectSeq(st.allSequences, LAMBDA s : MatchesSome(s, tokens))
  IN  [state |-> [st EXCEPT !.sequences = kept,
                            !.descriptorInfo =
                              [k \in Range(st.descriptors) |-> DescriptorInfoOf(kept, k)]],
       throws |-> FALSE]

\* The handler filtering the current list instead of the master list.
SearchInputNarrowing(value, st) ==
  LET tokens == Tokens(value)
  IN  IF tokens = <<>>
        THEN [state |-> [st EXCEPT !.sequences = st.allSequences], throws |-> FALSE]
      ELSE IF \E i \in 1..Len(st.allSequences) : "accession" \notin DOMAIN st.allSequences[i]
        THEN [state |-> st, throws |-> TRUE]
      ELSE [state |-> [st EXCEPT !.sequences =
                         SelectSeq(st.sequences, LAMBDA s : MatchesSome(s, tokens))],
            throws |-> FALSE]

\* The assignment of the input handler of the search box, the text of the box
\* being value: the state it leaves, and whether it throws instead
\* (s.accession.toUpperCase() of a record with no accession).
SearchInput(value, st) ==
  LET tokens == Tokens(value)
  IN  IF tokens = <<>>
        THEN [state |-> [st EXCEPT !.sequences = st.allSequences], throws |-> FALSE]
      ELSE IF \E i \in 1..Len(st.allSequences) : "accession" \notin DOMAIN st.allSequences[i]
        THEN [state |-> st, throws |-> TRUE]
      ELSE [state |-> [st EXCEPT !.sequences =
                         SelectSeq(st.allSequences, LAMBDA s : MatchesSome(s, tokens))],
            throws |-> FALSE]

----------------------------------------------------------------------------
(* exportCSV *)

\* Array.prototype.join: the texts of the list with sep between them.
RECURSIVE Join(_, _)
Join(parts, sep) ==
  IF parts = <<>> THEN <<>>
  ELSE IF Len(parts) = 1 THEN parts[1]
  ELSE parts[1] \o <<sep>> \o Join(Tail(parts), sep)

\* The text join writes for an element: nothing for undefined, String(v)
\* otherwise.
JoinText(v) == IF v.t = "undefined" THEN <<>> ELSE StringOf(v)

\* The text join writes for the identifier id of a record.
IdText(s, id) == IF id \in DOMAIN s THEN s[id] ELSE <<>>

\* The rows exportCSV collects from state st: the header, then one row for
\* each record of st.sequences.  A column name is one symbol of the text.
ExportRows(st) ==
  <<<<<<"accession">>, <<"pmid">>>> \o [k \in 1..Len(st.descriptors) |-> <<st.descriptors[k]>>]>>
  \o [i \in 1..Len(st.sequences) |->
        <<IdText(st.sequences[i], "accession"), IdText(st.sequences[i], "pmid")>>
        \o [k \in 1..Len(st.descriptors) |->
               JoinText(Descriptor(st.sequences[i], st.descriptors[k]))]]

\* csvContent of exportCSV.
ExportCSV(st) ==
  LET rows == ExportRows(st)
  IN  Join([i \in 1..Len(rows) |-> Join(rows[i], ",")], "\n")

----------------------------------------------------------------------------
(* Inputs *)

MaxLen == 4

Alphabet == {"(", ")", ",", ":", ";", " ", "A", "1", "-"}

RECURSIVE StringsOfLen(_)
StringsOfLen(n) ==
  IF n = 0 THEN {<<>>}
  ELSE {Append(s, c) : s \in StringsOfLen(n - 1), c \in Alphabet}

\* Every string of at most MaxLen characters of the alphabet.
ShortStrings == UNION {StringsOfLen(n) : n \in 0..MaxLen}

\* Node names, and branch lengths as written and as numbers.
NamePool == {<<"A">>, <<"B">>, <<"A", "1">>}

LengthPool ==
  {[text |-> <<"0">>, value |-> 0], [text |-> <<"1">>, value |-> 1],
   [text |-> <<"2">>, value |-> 2], [text |-> <<"1", "0">>, value |-> 10]}

\* The string "(a:x,b:y)c:z;".
PairString(a, x, b, y, c, z) ==
  <<"(">> \o a \o <<":">> \o x \o <<",">> \o b \o <<":">> \o y \o <<")">>
    \o c \o <<":">> \o z \o <<";">>

PairStrings ==
  {PairString(a, x.text, b, y.text, c, z.text) :
     a \in NamePool, b \in NamePool, c \in NamePool,
     x \in LengthPool, y \in LengthPool, z \in LengthPool}

\* Tree files of the dashboard.
TreeTexts ==
  {<<>>, <<" ">>, <<";">>, <<"A", ";">>, <<"(", "A", ",", "B", ")", ";">>,
   <<"(", ")">>, <<"(", "A">>}

\* A parsed CSV file: the header and the rows, each row a function of the
\* column names.
Table(columns, rows) == [columns |-> columns, rows |-> rows]

OneColumn == <<"accession", "pmid", "d1">>

Row(accession, pmid, cell) == [accession |-> accession, pmid |-> pmid, d1 |-> cell]

\* Cells of a descriptor column: numerals (one of them blank, which Number
\* reads as 0), texts, and the spellings of a missing value.
NumeralPool ==
  <<<<" ">>, <<"-", "5">>, <<"3">>, <<"1", "0">>, <<"1">>, <<"7">>, <<"2">>, <<"4">>,
    <<"8">>, <<"6">>, <<"9">>, <<"5">>, <<"1", "1">>, <<"1", "2">>>>
TextPool == <<<<"x">>, <<"1", "x">>, <<"N", "A", " ">>, <<"b">>>>
MissingPool == <<<<>>, <<"N", "A">>, <<"n", "a">>, <<"N", "a">>>>

MaxNumeric == 8
MaxRepeat == 2
MaxText == 2
MaxMissing == 2
MaxOffset == 2

Reverse(s) == [i \in 1..Len(s) |-> s[Len(s) + 1 - i]]

\* A column of k distinct numerals (those of the pool after the first o), r
\* more copies of the first of them, t texts and m missing values.
ColumnCells(o, k, r, t, m) ==
  SubSeq(NumeralPool, o + 1, o + k) \o [i \in 1..r |-> NumeralPool[o + 1]]
    \o SubSeq(TextPool, 1, t) \o SubSeq(MissingPool, 1, m)

ColumnTable(cells) ==
  Table(OneColumn, [i \in 1..Len(cells) |-> Row(IntToString(i), <<"1">>, cells[i])])

\* The column "3", "NA", "1", "", "5".
ExampleCells == <<<<"3">>, <<"N", "A">>, <<"1">>, <<>>, <<"5">>>>

ColumnTables ==
  {ColumnTable(c) :
     c \in {ExampleCells} \cup
           UNION {{ColumnCells(o, k, r, t, m), Reverse(ColumnCells(o, k, r, t, m))} :
                    o \in 0..MaxOffset, k \in 0..MaxNumeric, r \in 0..MaxRepeat,
                    t \in 0..MaxText, m \in 0..MaxMissing}}

\* CSV files of the dashboard: one with no row, one with another descriptor
\* column, and small ones.
SmallTables ==
  {Table(OneColumn, <<>>),
   Table(<<"accession", "pmid", "d2">>,
         <<[accession |-> <<"A">>, pmid |-> <<"1">>, d2 |-> <<"b">>]>>),
   Table(OneColumn, <<Row(<<"A">>, <<"1">>, <<"x">>), Row(<<"B">>, <<"2">>, <<"N", "A">>)>>),
   Table(OneColumn, <<Row(<<"A">>, <<"1">>, <<"3">>), Row(<<"B">>, <<"1">>, <<"x">>),
                      Row(<<"C">>, <<"2">>, <<>>)>>)}

\* The datasets whose views are drawn: trees of one to three leaves on one
\* level or two, one with a leaf that has no name, and tables whose column d1 is categorical
\* (with missing values, or with values shared by several records) or
\* numerical, tables with no accession column or no pmid column, and a table
\* whose column d1 has eleven categories, one more than the colour scheme.
ViewTrees ==
  {<<"A", ";">>, <<"(", "A", ",", "B", ")", ";">>, <<"(", ")">>,
   <<"(", "A", ",", "B", ",", "C", ")", ";">>,
   <<"(", "(", "A", ",", "B", ")", ",", "C", ")", ";">>,
   <<"(", "(", "A", ",", "D", ")", ",", "C", ")", ";">>}

ViewTables ==
  {Table(<<"pmid", "d1">>, <<[pmid |-> <<"1">>, d1 |-> <<"x">>],
                             [pmid |-> <<"2">>, d1 |-> <<"b">>]>>),
   Table(<<"accession", "d1">>, <<[accession |-> <<"A">>, d1 |-> <<"x">>],
                                  [accession |-> <<"B">>, d1 |-> <<"b">>]>>),
   Table(OneColumn, <<Row(<<"A">>, <<"1">>, <<"x">>), Row(<<"B">>, <<"2">>, <<"N", "A">>)>>),
   Table(OneColumn, <<Row(<<"A">>, <<"1">>, <<"3">>), Row(<<"B">>, <<"1">>, <<"x">>),
                      Row(<<"C">>, <<"2">>, <<>>)>>),
   Table(OneColumn, <<Row(<<"A">>, <<"1">>, <<>>), Row(<<"B">>, <<"1">>, <<"N", "A">>),
                      Row(<<"C">>, <<"2">>, <<"x">>)>>),
   Table(OneColumn, <<Row(<<"A">>, <<"1">>, <<"x">>), Row(<<"B">>, <<"1">>, <<"x">>),
                      Row(<<"C">>, <<"2">>, <<"x">>), Row(<<"D">>, <<"2">>, <<"b">>)>>),
   Table(OneColumn, <<Row(<<"A">>, <<"1">>, <<"1">>), Row(<<"B">>, <<"1">>, <<"2">>),
                      Row(<<"C">>, <<"1">>, <<"3">>), Row(<<"D">>, <<"1">>, <<"4">>),
                      Row(<<"A", "1">>, <<"2">>, <<"5">>), Row(<<"B", "1">>, <<"2">>, <<"6">>),
                      Row(<<"C", "1">>, <<"2">>, <<"7">>)>>),
   Table(OneColumn, <<Row(<<"A">>, <<"1">>, <<"A">>), Row(<<"B">>, <<"1">>, <<"x">>),
                      Row(<<"C">>, <<"1">>, <<"B">>), Row(<<"D">>, <<"1">>, <<"C">>),
                      Row(<<"A", "1">>, <<"1">>, <<"D">>), Row(<<"B", "1">>, <<"1">>, <<"N">>),
                      Row(<<"C", "1">>, <<"1">>, <<"X">>), Row(<<"D", "1">>, <<"1">>, <<"a">>),
                      Row(<<"A", "2">>, <<"1">>, <<"b">>), Row(<<"B", "2">>, <<"1">>, <<"c">>),
                      Row(<<"C", "2">>, <<"1">>, <<"d">>)>>)}

\* The datasets exported: tables with one descriptor column or two, one with
\* a cell that holds a comma, one with no pmid column.
ExportTrees == {<<"A", ";">>, <<"(", "A", ",", "B", ")", ";">>}

ExportTables ==
  {Table(OneColumn, <<Row(<<"A">>, <<"1">>, <<"x">>), Row(<<"B">>, <<"2">>, <<"a", ",", "b">>)>>),
   Table(OneColumn, <<Row(<<"A">>, <<"1">>, <<"3">>), Row(<<"B">>, <<"1">>, <<"x">>),
                      Row(<<"C">>, <<"2">>, <<>>)>>),
   Table(<<"accession", "d1">>, <<[accession |-> <<"A">>, d1 |-> <<"x">>],
                                  [accession |-> <<"B">>, d1 |-> <<"b">>]>>),
   Table(<<"accession", "pmid", "d2", "d1">>,
         <<[accession |-> <<"A">>, pmid |-> <<"1">>, d2 |-> <<"b">>, d1 |-> <<"1", "0">>],
           [accession |-> <<"B">>, pmid |-> <<"2">>, d2 |-> <<"N", "A">>, d1 |-> <<"-", "5">>]>>)}

\* The file pairs of the clicks on Load that follow one another, and the
\* number of clicks.
MaxClicks == 2

AsyncTrees == {<<"A", ";">>, <<"(", "A", ",", "B", ")", ";">>}

AsyncTables ==
  {Table(OneColumn, <<Row(<<"A">>, <<"1">>, <<"x">>), Row(<<"B">>, <<"2">>, <<"N", "A">>)>>),
   Table(<<"accession", "pmid", "d2">>,
         <<[accession |-> <<"A">>, pmid |-> <<"1">>, d2 |-> <<"b">>]>>)}

\* Texts typed in the search box.
SearchTexts ==
  {<<>>, <<" ", ",">>, <<"A">>, <<"B">>, <<"a", ",", "c">>, <<"2">>,
   <<"A", ",", "B">>}

----------------------------------------------------------------------------
(* The parser as a state machine *)

\* Nothing is selected, bound or drawn before the first load.
ViewIdle ==
  /\ treeColour = NoneOption
  /\ eventsBound = FALSE
  /\ treeSvg = Null
  /\ searchBox = <<>>
  /\ uncaught = NoError
  /\ download = Null
  /\ requests = <<>>

DashIdle ==
  /\ csvFile = Table(OneColumn, <<>>)
  /\ treeFile = <<>>
  /\ state = InitialState
  /\ alertMsg = NoAlert
  /\ loaded = FALSE
  /\ hung = FALSE
  /\ ViewIdle

ParseInit ==
  /\ newick \in ShortStrings
  /\ parser = ParserStart
  /\ DashIdle

\* The call executes its next step.
ParseAdvance ==
  /\ parser.pc # "done"
  /\ parser' = ParseStep(CursorText(newick, TrimmedNewick(newick)), parser)
  /\ UNCHANGED <<newick, dashVars>>

ParseNext == ParseAdvance

\* A call that has started keeps running: nothing preempts the script.
ParseSpec == ParseInit /\ [][ParseNext]_vars /\ WF_vars(ParseNext)

PairInit ==
  /\ newick \in PairStrings
  /\ parser = ParserStart
  /\ DashIdle

PairSpec == PairInit /\ [][ParseNext]_vars /\ WF_vars(ParseNext)

----------------------------------------------------------------------------
(* The dashboard as a state machine *)

ParserIdle ==
  /\ newick = <<>>
  /\ parser = ParserStart

\* The user picks other files in the file inputs.
ChooseFiles ==
  /\ ~hung
  /\ csvFile' \in SmallTables
  /\ treeFile' \in TreeTexts
  /\ UNCHANGED <<parseVars, state, alertMsg, loaded, hung, viewVars, pageVars>>

\* loadDashboard runs on the contents of the chosen files.  populateControls
\* puts the select treeColour back on its first option, and drawTree draws
\* the tree before it is labelled.
Load ==
  /\ ~hung
  /\ \E r \in {LoadDashboard(treeFile, csvFile, state)} :
         /\ state' = r.state
         /\ hung' = ~r.returns
         /\ alertMsg' = r.alert
         /\ loaded' = IF r.returns THEN r.loaded ELSE loaded
         /\ treeColour' = IF r.drawn THEN NoneOption ELSE treeColour
         /\ eventsBound' = (eventsBound \/ r.drawn)
         /\ treeSvg' = IF r.drawn THEN DrawTree(r.state, NoneOption) ELSE treeSvg
  /\ uncaught' = NoError
  /\ UNCHANGED <<parseVars, csvFile, treeFile, searchBox, download, requests>>

\* The user picks an option of the select treeColour: its change listener is
\* drawTree.
SelectColour ==
  /\ ~hung
  /\ eventsBound
  /\ \E d \in {NoneOption} \cup Range(state.descriptors) :
       /\ treeColour' = d
       /\ treeSvg' = DrawTree(state, d)
  /\ uncaught' = IF DrawThrows(state) THEN LabelError ELSE NoError
  /\ UNCHANGED <<parseVars, csvFile, treeFile, state, alertMsg, loaded, hung, eventsBound,
                 searchBox, download, requests>>

\* The user types in the search box: the input listener filters the records
\* and redraws.
Search ==
  /\ ~hung
  /\ eventsBound
  /\ \E value \in SearchTexts :
       \E r \in {SearchInput(value, state)} :
           /\ searchBox' = value
           /\ state' = r.state
           /\ treeSvg' = IF r.throws THEN treeSvg ELSE DrawTree(r.state, treeColour)
           /\ uncaught' = IF r.throws THEN AccessionError
                          ELSE IF DrawThrows(r.state) THEN LabelError ELSE NoError
  /\ UNCHANGED <<parseVars, csvFile, treeFile, alertMsg, loaded, hung, treeColour,
                 eventsBound, download, requests>>

\* The user clicks Export CSV: the listener downloads the current list.
Export ==
  /\ ~hung
  /\ eventsBound
  /\ download' = [name |-> "filtered_sequences.csv", text |-> ExportCSV(state)]
  /\ UNCHANGED <<parseVars, csvFile, treeFile, state, alertMsg, loaded, hung, viewVars,
                 searchBox, uncaught, requests>>

\* The user picks a pair of files in the file inputs.
ChoosePair ==
  /\ ~hung
  /\ csvFile' \in AsyncTables
  /\ treeFile' \in AsyncTrees
  /\ UNCHANGED <<parseVars, state, alertMsg, loaded, hung, viewVars, pageVars>>

\* The user clicks Load: the listener starts the two reads of the chosen files
\* and returns.
ClickLoad ==
  /\ ~hung
  /\ Len(requests) < MaxClicks
  /\ requests' = Append(requests, [csv |-> csvFile, tree |-> treeFile,
                                    csvRead |-> FALSE, treeRead |-> FALSE,
                                    failed |-> FALSE])
  /\ UNCHANGED <<parseVars, csvFile, treeFile, state, alertMsg, loaded, hung, viewVars,
                 searchBox, uncaught, download>>

\* Nothing more happens for a click: a read has failed or both are done.
Settled(req) == req.failed \/ (req.csvRead /\ req.treeRead)

\* The request with the read of one of its files done.
WithRead(req, file) ==
  IF file = "csv" THEN [req EXCEPT !.csvRead = TRUE] ELSE [req EXCEPT !.treeRead = TRUE]

\* A read of a click completes (reader.onload).  When it is the second of
\* the click, Promise.all resolves and loadDashboard runs on the two texts
\* before any other event.
ReadCompletes ==
  /\ ~hung
  /\ \E i \in 1..Len(requests) : \E file \in {"csv", "tree"} :
       /\ ~Settled(requests[i])
       /\ WithRead(requests[i], file) # requests[i]
       /\ requests' = [requests EXCEPT ![i] = WithRead(requests[i], file)]
       /\ IF Settled(WithRead(requests[i], file))
            THEN \E r \in {LoadDashboard(requests[i].tree, requests[i].csv, state)} :
                   /\ state' = r.state
                   /\ hung' = ~r.returns
                   /\ alertMsg' = r.alert
                   /\ loaded' = IF r.returns THEN r.loaded ELSE loaded
                   /\ treeColour' = IF r.drawn THEN NoneOption ELSE treeColour
                   /\ eventsBound' = (eventsBound \/ r.drawn)
                   /\ treeSvg' = IF r.drawn THEN DrawTree(r.state, NoneOption) ELSE treeSvg
            ELSE UNCHANGED <<state, hung, alertMsg, loaded, viewVars>>
  /\ UNCHANGED <<parseVars, csvFile, treeFile, searchBox, uncaught, download>>

\* A read of a click fails (reader.onerror): Promise.all rejects and the
\* catch callback alerts.
ReadFails ==
  /\ ~hung
  /\ \E i \in 1..Len(requests) :
       /\ ~Settled(requests[i])
       /\ requests' = [requests EXCEPT ![i].failed = TRUE]
  /\ alertMsg' = "Error reading files"
  /\ UNCHANGED <<parseVars, csvFile, treeFile, state, loaded, hung, viewVars,
                 searchBox, uncaught, download>>

Init ==
  /\ ParserIdle
  /\ csvFile \in SmallTables
  /\ treeFile \in TreeTexts
  /\ state = InitialState
  /\ alertMsg = NoAlert
  /\ loaded = FALSE
  /\ hung = FALSE
  /\ ViewIdle

Next == ChooseFiles \/ Load

Spec == Init /\ [][Next]_vars

\* One dataset, loaded, coloured and searched.
ViewInit ==
  /\ ParserIdle
  /\ csvFile \in ViewTables
  /\ treeFile \in ViewTrees
  /\ state = InitialState
  /\ alertMsg = NoAlert
  /\ loaded = FALSE
  /\ hung = FALSE
  /\ ViewIdle

ViewNext == Load \/ SelectColour \/ Search

ViewSpec == ViewInit /\ [][ViewNext]_vars

\* One dataset, loaded, searched and exported.
ExportInit ==
  /\ ParserIdle
  /\ csvFile \in ExportTables
  /\ treeFile \in ExportTrees
  /\ state = InitialState
  /\ alertMsg = NoAlert
  /\ loaded = FALSE
  /\ hung = FALSE
  /\ ViewIdle

ExportNext == Load \/ Search \/ Export

ExportSpec == ExportInit /\ [][ExportNext]_vars

\* Clicks on Load whose reads complete in any order.
AsyncInit ==
  /\ ParserIdle
  /\ csvFile \in AsyncTables
  /\ treeFile \in AsyncTrees
  /\ state = InitialState
  /\ alertMsg = NoAlert
  /\ loaded = FALSE
  /\ hung = FALSE
  /\ ViewIdle

AsyncNext == ChoosePair \/ ClickLoad \/ ReadCompletes \/ ReadFails

AsyncSpec == AsyncInit /\ [][AsyncNext]_vars

\* One load of a CSV file with one descriptor column.
ClassifyInit ==
  /\ ParserIdle
  /\ csvFile \in ColumnTables
  /\ treeFile = <<"A", ";">>
  /\ state = InitialState
  /\ alertMsg = NoAlert
  /\ loaded = FALSE
  /\ hung = FALSE
  /\ ViewIdle

ClassifyNext == Load

ClassifySpec == ClassifyInit /\ [][ClassifyNext]_vars

----------------------------------------------------------------------------
(* Claims about parseNewick *)

\* The function ParseNewick and the state machine describe the same call.
ParseAgreement ==
  parser.pc = "done" => (Returns(ParseNewick(newick)) /\ ParseNewick(newick).ret = parser.ret)

\* The nodes of a tree.
RECURSIVE NodesOf(_)
NodesOf(node) ==
  {node} \cup (IF "branchset" \in DOMAIN node
                 THEN UNION {NodesOf(node.branchset[i]) : i \in 1..Len(node.branchset)}
                 ELSE {})

\* No children array of a returned tree reached the length MaxChildren.
ChildrenWithinInput ==
  parser.pc = "done" =>
    \A n \in NodesOf(parser.ret) :
      "branchset" \in DOMAIN n => Len(n.branchset) <= Len(newick)

\* The parentheses of s match: no ')' without an open '(' and no '(' left open.
RECURSIVE OpenAfter(_, _)
OpenAfter(s, depth) ==
  IF s = <<>> \/ depth < 0 THEN depth
  ELSE OpenAfter(Tail(s), CASE Head(s) = "(" -> depth + 1
                            [] Head(s) = ")" -> depth - 1
                            [] OTHER -> depth)

Balanced(s) == OpenAfter(s, 0) = 0

\* C1: every call of parseNewick ends after finitely many steps, also when a
\* '(' is never closed.
C1_ParseTerminates == <>(parser.pc = "done")

\* C2: parseNewick returns no tree for an input whose parentheses are
\* unbalanced, whether a '(' is left open or a ')' has no open '('.
C2_UnbalancedReturnsNoTree == parser.pc = "done" => Balanced(newick)

\* C3: loadDashboard given a Newick text with no parseable node (empty once
\* the white space and the trailing ';' are removed) reports a load error and
\* does not set state.tree.
C3_BlankTreeIsLoadError ==
  [][(Load /\ TrimmedNewick(treeFile) = <<>>)
       => (alertMsg' # NoAlert /\ state'.tree = state.tree)]_vars

\* C4: parsing "(A:x,B:y)C:z;" gives a root named C whose children are exactly
\* the two leaves A and B, in this order, with the lengths x and y.
C4_PairParses ==
  parser.pc = "done" =>
    \A a \in NamePool, b \in NamePool, c \in NamePool,
       x \in LengthPool, y \in LengthPool, z \in LengthPool :
      newick = PairString(a, x.text, b, y.text, c, z.text) =>
        /\ {"name", "branchset"} \subseteq DOMAIN parser.ret
        /\ parser.ret.name = c
        /\ parser.ret.branchset =
             <<[name |-> a, length |-> x.value], [name |-> b, length |-> y.value]>>

C4_PairParsed ==
  /\ parser.pc = "done"
  /\ newick = PairString(<<"B">>, <<"1", "0">>, <<"A">>, <<"2">>, <<"A", "1">>, <<"1">>)
  /\ Len(parser.ret.branchset) = 2

\* C5: when the input holds no ':', every node of the parsed tree, leaf,
\* internal node and root, has a branch length equal to 0.
C5_NoLengthGivesZero ==
  (parser.pc = "done" /\ ":" \notin Range(newick)) =>
    \A n \in NodesOf(parser.ret) : "length" \in DOMAIN n /\ n.length = 0

\* C6: parsing s with added leading white space, trailing white space or one
\* trailing ';' returns the same tree as parsing s.
C6_TrimInvariant ==
  parser.pc = "done" =>
    \A v \in {<<" ">> \o newick, newick \o <<" ">>, newick \o <<";">>} :
      Returns(ParseNewick(v)) /\ ParseNewick(v).ret = parser.ret

\* C7: every node of a returned tree has a branch length that is a number
\* and is not negative.
C7_LengthsNonNegative ==
  parser.pc = "done" =>
    \A n \in NodesOf(parser.ret) : "length" \in DOMAIN n /\ n.length >= 0

\* C8: in a returned tree a node carries a branchset exactly when it has a
\* child, and every node without children has a non-empty name.
C8_BranchsetIffChildren ==
  parser.pc = "done" =>
    \A n \in NodesOf(parser.ret) :
      /\ "branchset" \in DOMAIN n => n.branchset # <<>>
      /\ "branchset" \notin DOMAIN n => ("name" \in DOMAIN n /\ n.name # <<>>)

\* The input is one group "(...)" with no group inside and at least one
\* character between the parentheses.
FlatGroup(s) ==
  /\ Len(s) >= 3
  /\ s[1] = "("
  /\ s[Len(s)] = ")"
  /\ \A i \in 2..(Len(s) - 1) : s[i] \notin {"(", ")"}

Commas(s) == Cardinality({i \in 1..Len(s) : s[i] = ","})

\* C28: the node parsed from a group has one child for each item between
\* the commas, (number of commas) + 1 children, also when an item is empty:
\* "(A,)", "(,A)" and "(,)" have two children.
C28_ChildPerItem ==
  (parser.pc = "done" /\ FlatGroup(newick)) =>
    /\ "branchset" \in DOMAIN parser.ret
    /\ Len(parser.ret.branchset) = Commas(newick) + 1

----------------------------------------------------------------------------
(* Claims about analyzeDescriptors *)

\* The value the loaded record i holds for column key.
StoredValue(i, key) == Descriptor(state.allSequences[i], key)

\* A missing value: null or undefined, the empty string, or "NA" in any
\* letter case.
IsMissing(v) ==
  \/ v.t = "undefined"
  \/ v.t = "str" /\ (v.s = <<>> \/ ToUpperCase(v.s) = <<"N", "A">>)

\* The records whose value for column key is not missing, and those among
\* them whose value is a number.
PresentRows(key) ==
  {i \in 1..Len(state.allSequences) : ~IsMissing(StoredValue(i, key))}

NumericRows(key) == {i \in PresentRows(key) : StoredValue(i, key).t = "num"}

DistinctValues(key) == {StoredValue(i, key) : i \in PresentRows(key)}

Minimum(S) == CHOOSE m \in S : \A n \in S : m <= n
Maximum(S) == CHOOSE m \in S : \A n \in S : m >= n

\* C9: a column with no non-missing value is categorical with an empty
\* domain; any other column is numerical exactly when more than 0.8 of its
\* non-missing values are numbers and more than 6 of them are distinct.
C9_ClassificationRule ==
  \A key \in DOMAIN state.descriptorInfo :
    LET info == state.descriptorInfo[key]
        total == Cardinality(PresentRows(key))
        numeric == Cardinality(NumericRows(key))
        distinct == Cardinality(DistinctValues(key))
    IN  IF total = 0
          THEN info.type = "categorical" /\ info.domain = <<>>
          ELSE info.type = IF 10 * numeric > 8 * total /\ distinct > 6
                             THEN "numerical" ELSE "categorical"

C9_SevenDistinctWithText ==
  /\ "d1" \in DOMAIN state.descriptorInfo
  /\ state.descriptorInfo["d1"].type = "numerical"
  /\ Cardinality(DistinctValues("d1")) = 7
  /\ NumericRows("d1") # PresentRows("d1")

\* C10: the domain of a numerical column is [min, max] over the values of
\* the column that are numbers, the missing values removed.
C10_NumericalDomain ==
  \A key \in DOMAIN state.descriptorInfo :
    state.descriptorInfo[key].type = "numerical" =>
      LET numbers == {StoredValue(i, key).n : i \in NumericRows(key)}
      IN  state.descriptorInfo[key].domain = <<Num(Minimum(numbers)), Num(Maximum(numbers))>>

C10_NumericalWithMissingAndText ==
  /\ "d1" \in DOMAIN state.descriptorInfo
  /\ state.descriptorInfo["d1"].type = "numerical"
  /\ PresentRows("d1") # 1..Len(state.allSequences)
  /\ NumericRows("d1") # PresentRows("d1")
  /\ \E i \in 1..Len(state.allSequences) : StoredValue(i, "d1") = Str(<<>>)

\* The column "3", "NA", "1", "", "5" has been loaded and classified.
ExampleClassified ==
  /\ csvFile = ColumnTable(ExampleCells)
  /\ "d1" \in DOMAIN state.descriptorInfo

\* C11 as stated: the column "3", "NA", "1", "", 5 gets the numerical domain
\* [1, 5].
C11_ExampleIsNumerical ==
  ExampleClassified =>
    state.descriptorInfo["d1"] = [type |-> "numerical", domain |-> <<Num(1), Num(5)>>]

\* C11: the column "3", "NA", "1", "", 5 has three distinct non-missing
\* values, so it is categorical; its domain is [1, 3, 5], with "NA" and ""
\* left out, and the least and greatest of its values are 1 and 5.
C11_ExampleIsCategorical ==
  ExampleClassified =>
    /\ state.descriptorInfo["d1"] =
          [type |-> "categorical", domain |-> <<Num(1), Num(3), Num(5)>>]
    /\ D3Extent(ColumnValues(state.allSequences, "d1")) = <<Num(1), Num(5)>>

C11_ExampleLoaded ==
  /\ ExampleClassified
  /\ PresentRows("d1") = {1, 3, 5}
  /\ NumericRows("d1") = {1, 3, 5}

\* C12: the domain of a categorical column holds each distinct non-missing
\* value of the column exactly once, in the lexicographic order of the
\* values' strings (10 comes before 2), not in numeric order.
C12_CategoricalDomain ==
  \A key \in DOMAIN state.descriptorInfo :
    state.descriptorInfo[key].type = "categorical" =>
      LET domain == state.descriptorInfo[key].domain
      IN  /\ Range(domain) = DistinctValues(key)
          /\ \A i, j \in 1..Len(domain) :
                i < j => /\ domain[i] # domain[j]
                         /\ ~StringLess(StringOf(domain[j]), StringOf(domain[i]))

C12_TenBeforeTwo ==
  /\ "d1" \in DOMAIN state.descriptorInfo
  /\ state.descriptorInfo["d1"].type = "categorical"
  /\ LET domain == state.descriptorInfo["d1"].domain
     IN  /\ \E i, j \in 1..Len(domain) : i < j /\ domain[i] = Num(10) /\ domain[j] = Num(2)
         /\ Len(domain) < Cardinality(PresentRows("d1"))

----------------------------------------------------------------------------
(* Claims about the coercion of loadDashboard *)

\* A decimal numeral: an optional sign and one digit or more.
IsDecimalText(t) ==
  LET body == IF t # <<>> /\ t[1] = "-" THEN Tail(t) ELSE t
  IN  body # <<>> /\ \A i \in 1..Len(body) : body[i] \in Digits

\* C13: a cell is stored as a number exactly when its trimmed text is a
\* numeral; any other cell is stored as the string it was; a blank cell or
\* "NA" in any letter case is missing for the classifier and is never the number 0.
C13_CoercionRule ==
  \A i \in 1..Len(state.allSequences) :
    LET raw == csvFile.rows[i]["d1"]
        v == StoredValue(i, "d1")
    IN  /\ v.t = "num" <=> IsDecimalText(Trim(raw))
        /\ v.t # "num" => v = Str(raw)
        /\ (Trim(raw) = <<>> \/ ToUpperCase(raw) = <<"N", "A">>) =>
              (v # Num(0) /\ ~IsPresent(v))

----------------------------------------------------------------------------
(* Claims about drawTree *)

\* The nodes of a drawn hierarchy, and its leaves.
RECURSIVE DrawnNodes(_)
DrawnNodes(node) ==
  {node} \cup UNION {DrawnNodes(node.children[i]) : i \in 1..Len(node.children)}

DrawnLeaves(node) == {n \in DrawnNodes(node) : n.children = <<>>}

\* A record of the current list has the leaf's name as its accession.
Joined(leaf) ==
  \E i \in 1..Len(state.sequences) : AccessionOf(state.sequences[i]) = NameOf(leaf.data)

\* The descriptor selected for the colour is categorical.
CategoricalSelected ==
  /\ treeColour \in DOMAIN state.descriptorInfo
  /\ state.descriptorInfo[treeColour].type = "categorical"

\* C14: when "--none--" or a descriptor that is not categorical is selected,
\* every node of the drawn tree, leaves, internal nodes and root, is "#ccc".
C14_NeutralWithoutCategorical ==
  (~IsNull(treeSvg) /\ ~CategoricalSelected) =>
    \A n \in DrawnNodes(treeSvg) : n.color = "#ccc"

C14_NumericalSelected ==
  /\ ~IsNull(treeSvg)
  /\ treeColour = "d1"
  /\ state.descriptorInfo["d1"].type = "numerical"
  /\ treeSvg.children # <<>>
  /\ \A leaf \in DrawnLeaves(treeSvg) : Joined(leaf)

\* C15: a leaf whose name is the accession of no record of the current list
\* is "#ccc", whatever is selected.
C15_UnjoinedLeafNeutral ==
  ~IsNull(treeSvg) =>
    \A leaf \in DrawnLeaves(treeSvg) : ~Joined(leaf) => leaf.color = "#ccc"

C15_UnjoinedBesideColoured ==
  /\ ~IsNull(treeSvg)
  /\ CategoricalSelected
  /\ \E leaf \in DrawnLeaves(treeSvg) : ~Joined(leaf)
  /\ \E leaf \in DrawnLeaves(treeSvg) : Joined(leaf) /\ leaf.color # "#ccc"
  /\ state.sequences # <<>>

\* The record of the current list that a leaf is joined to, and its value
\* for the selected descriptor.
RecordOf(leaf) ==
  state.sequences[CHOOSE i \in 1..Len(state.sequences) :
                    /\ AccessionOf(state.sequences[i]) = NameOf(leaf.data)
                    /\ \A j \in 1..(i - 1) :
                         AccessionOf(state.sequences[j]) # NameOf(leaf.data)]

ValueOf(leaf) == Descriptor(RecordOf(leaf), treeColour)

\* The colour an ordinal scale over the scheme gives the value at place i of
\* its domain.
SchemeColor(i) == SchemeTableau10[((i - 1) % 10) + 1]

\* C16: with a categorical descriptor selected, a joined leaf whose value is
\* missing is "#ccc", and one whose value is in the descriptor's domain has
\* the scale's colour for that value.
C16_MissingNeutralElseScale ==
  (~IsNull(treeSvg) /\ CategoricalSelected) =>
    \A leaf \in DrawnLeaves(treeSvg) :
      Joined(leaf) =>
        LET domain == state.descriptorInfo[treeColour].domain
        IN  /\ IsMissing(ValueOf(leaf)) => leaf.color = "#ccc"
            /\ \A i \in 1..Len(domain) :
                  domain[i] = ValueOf(leaf) => leaf.color = SchemeColor(i)

\* The children of an internal node all have the colour c.
ChildrenShare(n, c) == \A i \in 1..Len(n.children) : n.children[i].color = c

\* C17: every internal node, the root included, has the colour of its
\* children when they all have the same colour string, and "#ccc" otherwise;
\* the children's colours are their final ones.
C17_InternalNodeRule ==
  ~IsNull(treeSvg) =>
    \A n \in DrawnNodes(treeSvg) :
      n.children # <<>> =>
        IF ChildrenShare(n, n.children[1].color)
          THEN n.color = n.children[1].color
          ELSE n.color = "#ccc"

C17_SharedBelowMixed ==
  /\ ~IsNull(treeSvg)
  /\ treeSvg.color = "#ccc"
  /\ \E i, j \in 1..Len(treeSvg.children) :
       /\ treeSvg.children[i].color # treeSvg.children[j].color
       /\ treeSvg.children[i].children # <<>>
       /\ treeSvg.children[i].color # "#ccc"

\* C18: at every depth an internal node has a colour c other than "#ccc"
\* exactly when every leaf below it has the colour c.
C18_CladeColour ==
  ~IsNull(treeSvg) =>
    \A n \in DrawnNodes(treeSvg) :
      n.children # <<>> =>
        \A c \in Range(SchemeTableau10) :
          n.color = c <=> \A leaf \in DrawnLeaves(n) : leaf.color = c

C18_RootOfTwoLevels ==
  /\ ~IsNull(treeSvg)
  /\ treeSvg.color # "#ccc"
  /\ \E i \in 1..Len(treeSvg.children) : treeSvg.children[i].children # <<>>
  /\ Cardinality(DrawnLeaves(treeSvg)) = 3

\* C27: with a categorical descriptor selected, two joined leaves with
\* different values of the descriptor never have the same colour string, and
\* an internal node has a colour other than "#ccc" only if the joined leaves
\* below it all have the same value.
C27_ColourTellsValue ==
  (~IsNull(treeSvg) /\ CategoricalSelected) =>
    /\ \A l1, l2 \in DrawnLeaves(treeSvg) :
          (Joined(l1) /\ Joined(l2) /\ ValueOf(l1) # ValueOf(l2)) =>
             l1.color # l2.color
    /\ \A n \in DrawnNodes(treeSvg) :
          (n.children # <<>> /\ n.color # "#ccc") =>
             \A l1, l2 \in DrawnLeaves(n) :
               (Joined(l1) /\ Joined(l2)) => ValueOf(l1) = ValueOf(l2)

\* A record of the list sequences has the leaf's name as its accession.
JoinedIn(sequences, leaf) ==
  \E i \in 1..Len(sequences) : AccessionOf(sequences[i]) = NameOf(leaf.data)

\* C19: for one dataset and one selected descriptor, a leaf whose record is
\* in the list before and after a search input has the same colour in the
\* tree drawn before and in the tree drawn after.
C19_SameColourInViews ==
  [][(Search /\ ~IsNull(treeSvg)) =>
       \A before \in DrawnLeaves(treeSvg) :
         \A after \in DrawnLeaves(treeSvg') :
           (/\ NameOf(before.data) = NameOf(after.data)
            /\ JoinedIn(state.sequences, before)
            /\ JoinedIn(state'.sequences, after)) => before.color = after.color]_vars

----------------------------------------------------------------------------
(* Claims about the search box *)

\* C20: a search input leaves state.descriptorInfo as it was, so after any
\* number of them it is what the load made it.
C20_SearchKeepsClassification ==
  [][Search => state'.descriptorInfo = state.descriptorInfo]_vars

C20_FilteredView ==
  /\ eventsBound
  /\ state.sequences # <<>>
  /\ Len(state.sequences) < Len(state.allSequences)
  /\ "d1" \in DOMAIN state.descriptorInfo
  /\ state.descriptorInfo["d1"] = DescriptorInfoOf(state.allSequences, "d1")
  /\ state.descriptorInfo["d1"] # DescriptorInfoOf(state.sequences, "d1")

\* The tokens of a search text: the pieces between its commas, trimmed, the
\* empty ones left out.
SearchTokens(text) ==
  LET starts == {i \in 1..(Len(text) + 1) : i = 1 \/ text[i - 1] = ","}
      ends == {j \in 0..Len(text) : j = Len(text) \/ text[j + 1] = ","}
      pieces == {SubSeq(text, i, j) : <<i, j>> \in
                   {p \in starts \X ends :
                      /\ p[1] <= p[2] + 1
                      /\ \A k \in p[1]..p[2] : text[k] # ","}}
  IN  {Trim(piece) : piece \in pieces} \ {<<>>}

\* The token is a part of the text, the case of the letters set aside.
Contains(text, token) ==
  \E i \in 0..(Len(text) - Len(token)) :
    \A k \in 1..Len(token) : UpperChar(text[i + k]) = UpperChar(token[k])

\* The record has the identifier and a token is a part of it.
IdentifierMatches(rec, id, tokens) ==
  id \in DOMAIN rec /\ \E token \in tokens : Contains(rec[id], token)

\* The records a search text asks for.
Wanted(text, records) ==
  IF SearchTokens(text) = {} THEN records
  ELSE SelectSeq(records, LAMBDA rec :
                   \/ IdentifierMatches(rec, "accession", SearchTokens(text))
                   \/ IdentifierMatches(rec, "pmid", SearchTokens(text)))

\* C24: after a search input state.sequences holds, in their order, the
\* records of state.allSequences whose accession or PMID contains one of the
\* tokens of the text, whatever the case of the letters, and all the records
\* when the text has no token.
C24_SearchResult ==
  [][Search => state'.sequences = Wanted(searchBox', state.allSequences)]_vars

\* The list a is b with some of its elements left out.
RECURSIVE IsSubList(_, _)
IsSubList(a, b) ==
  IF a = <<>> THEN TRUE
  ELSE IF b = <<>> THEN FALSE
  ELSE IF Head(a) = Head(b) THEN IsSubList(Tail(a), Tail(b))
  ELSE IsSubList(a, Tail(b))

\* The state as the load left it: every record in the current list.
Unfiltered(st) == [st EXCEPT !.sequences = st.allSequences]

\* C30: a search input leaves state.allSequences as it was and makes
\* state.sequences an order-preserving sub-list of it, the one the same text
\* gives when typed first after the load, whatever was typed before; an
\* empty text gives the full list.
C30_SearchFromMasterList ==
  [][Search =>
       /\ state'.allSequences = state.allSequences
       /\ IsSubList(state'.sequences, state.allSequences)
       /\ state'.sequences = SearchInput(searchBox', Unfiltered(state)).state.sequences
       /\ searchBox' = <<>> => state'.sequences = state.allSequences]_vars

C30_NarrowedView ==
  /\ eventsBound
  /\ searchBox = <<"B">>
  /\ uncaught = NoError
  /\ Len(state.sequences) = 1
  /\ Len(state.allSequences) > 2

\* The CSV file has no column for the identifier id.
Lacks(id) == \A i \in 1..Len(csvFile.columns) : csvFile.columns[i] # id

\* C26: when the CSV has no accession column or no pmid column the load
\* fails on nothing of the CSV, the records have no value for the
\* identifier, and no search input raises an error.
C26_MissingColumnTolerated ==
  \A id \in IdColumns :
    (Lacks(id) /\ eventsBound) =>
      /\ alertMsg = NoAlert \/ DrawThrows(state)
      /\ \A i \in 1..Len(state.allSequences) : id \notin DOMAIN state.allSequences[i]
      /\ uncaught # AccessionError

----------------------------------------------------------------------------
(* Claims about loadDashboard *)

\* The parts of the state that hold the loaded dataset.
Dataset(st) ==
  <<st.allSequences, st.sequences, st.descriptors, st.descriptorInfo, st.tree>>

\* C21: a call of loadDashboard that ends in its error path leaves the
\* records, the descriptors, their classification and the tree as they were,
\* and leaves the dashboard displayed if it was.
C21_FailedLoadKeepsState ==
  [][(Load /\ alertMsg' # NoAlert) =>
       (Dataset(state') = Dataset(state) /\ loaded' = loaded)]_vars

\* drawTree threw when it drew: a leaf of the tree it built has no name.
DrawingThrew(svg) ==
  ~IsNull(svg) /\ \E leaf \in DrawnLeaves(svg) : "name" \notin DOMAIN leaf.data

\* C22: a load of a CSV with no data row alerts the message of the CSV, also
\* when the tree text is empty too; a load of a CSV with rows and an empty
\* tree text alerts the message of the tree; another exception alerts its
\* own message.
C22_MessageTellsCause ==
  [][Load =>
       IF csvFile.rows = <<>> THEN alertMsg' = "CSV data is empty"
       ELSE IF treeFile = <<>> THEN alertMsg' = "Tree data is empty"
       ELSE IF hung' THEN alertMsg' = NoAlert
       ELSE alertMsg' = IF DrawingThrew(treeSvg') THEN "TypeError" ELSE NoAlert]_vars

C22_BothEmpty ==
  /\ csvFile.rows = <<>>
  /\ treeFile = <<>>
  /\ alertMsg = "CSV data is empty"

\* C23: after a successful load state.descriptorInfo has one entry for each
\* descriptor column of the CSV just loaded and no other entry, each entry
\* the classification of the loaded records.
C23_NoStaleClassification ==
  (loaded /\ ~hung) =>
    /\ DOMAIN state.descriptorInfo = Range(state.descriptors)
    /\ \A k \in Range(state.descriptors) :
         state.descriptorInfo[k] = DescriptorInfoOf(state.allSequences, k)

----------------------------------------------------------------------------
(* Claims about exportCSV *)

\* The pieces of a text between the occurrences of sep.
RECURSIVE SplitAt(_, _)
SplitAt(text, sep) ==
  LET seps == {i \in 1..Len(text) : text[i] = sep}
  IN  IF seps = {} THEN <<text>>
      ELSE LET first == CHOOSE i \in seps : \A j \in seps : i <= j
           IN  <<SubSeq(text, 1, first - 1)>>
               \o SplitAt(SubSeq(text, first + 1, Len(text)), sep)

\* The fields of the lines of an exported text.
FieldsOf(text) ==
  LET lines == SplitAt(text, "\n")
  IN  [i \in 1..Len(lines) |-> SplitAt(lines[i], ",")]

\* The text of a stored value, nothing for an absent one.
Written(v) == IF v.t = "undefined" THEN <<>> ELSE StringOf(v)

\* The fields of the header, and of the row of record s, for the descriptor
\* keys descriptors.
HeaderFields(descriptors) ==
  <<<<"accession">>, <<"pmid">>>> \o [k \in 1..Len(descriptors) |-> <<descriptors[k]>>]

RecordFields(s, descriptors) ==
  <<IF "accession" \in DOMAIN s THEN s.accession ELSE <<>>,
    IF "pmid" \in DOMAIN s THEN s.pmid ELSE <<>>>>
  \o [k \in 1..Len(descriptors) |-> Written(Descriptor(s, descriptors[k]))]

\* C25: the exported text has the header row, accession, pmid and the
\* descriptor keys in header order, and then one row for each record of
\* state.sequences, in order, with the record's accession, pmid and
\* descriptor values in header order, and no other row.
C25_ExportedRows ==
  [][Export =>
       LET fields == FieldsOf(download'.text)
       IN  /\ Len(fields) = Len(state.sequences) + 1
           /\ fields[1] = HeaderFields(state.descriptors)
           /\ \A i \in 1..Len(state.sequences) :
                 fields[i + 1] = RecordFields(state.sequences[i], state.descriptors)]_vars

----------------------------------------------------------------------------
(* Claims about the Load button *)

\* The records, the descriptors and the tree of a state.
Loaded(st) == <<st.allSequences, st.sequences, st.descriptors, st.tree>>

\* Both files of the click have been read.
BothRead(req) == req.csvRead /\ req.treeRead

\* C29: when Load has been clicked twice, on two different pairs of files,
\* and the loads of both clicks have finished, the records, the descriptors
\* and the tree are those of the files of the second click.
C29_SecondClickWins ==
  (/\ Len(requests) = 2
   /\ BothRead(requests[1]) /\ BothRead(requests[2])
   /\ <<requests[1].csv, requests[1].tree>> # <<requests[2].csv, requests[2].tree>>) =>
     Loaded(state) =
       Loaded(LoadDashboard(requests[2].tree, requests[2].csv, InitialState).state)

====
